---- MODULE Spec2Model ----
(***************************************************************************)
(* Worker lifecycle and registry of the anaconda Sublime Text plugin       *)
(* (src/anaconda.py): the WORKERS registry and its lock, Worker            *)
(* construction / restart / stop, the port allocator, and the two          *)
(* high-level operations autocomplete and run_linter.                      *)
(***************************************************************************)
EXTENDS Integers, Sequences, FiniteSets, TLC

\* ------------------------------------------------------------------ bounds
NumWindows == 2     \* editor windows
NumPorts   == 2     \* local ports the OS can hand out
MaxProcs   == 2     \* backend processes ever spawned in one run
MaxEntries == 2     \* comma-separated entries of the extra_paths setting
MaxFolders == 2     \* workspace folders of a window

\* ------------------------------------------------------------- vocabulary
None     == 0          \* Python None (object ids and ports start at 1)
NoThread == "nobody"   \* WORKERS_LOCK is free
UI       == "ui"       \* the editor's interactive thread
Linter   == "linter"   \* a background thread that lints a view
Pool     == "pool"     \* the thread the @executor wrapper runs bodies on

Windows == 1..NumWindows
Threads == {UI, Linter}
Ports   == 1..NumPorts

\* Python values returned by the high-level operations: None or a list.
PyNone     == [isNone |-> TRUE,  items |-> <<>>]
PyList(s)  == [isNone |-> FALSE, items |-> s]

Completions == {<<>>, <<"path", "getcwd">>}
Errors      == {<<"E501">>}

\* What Client.request() can hand back: nothing, or a response dictionary.
Absent    == [present |-> FALSE, success |-> FALSE,
              completions |-> <<>>, errors |-> <<>>]
Responses == {Absent} \cup [present : {TRUE}, success : BOOLEAN,
                            completions : Completions, errors : Errors]

VARIABLES
    WORKERS,     \* registry: window id -> Worker id, None when absent
    lock,        \* owner of WORKERS_LOCK, NoThread when free
    workers,     \* heap of Worker objects, by Worker id
    procs,       \* every backend process ever spawned, by process id:
                 \* owning Worker, port it was given (None once dead),
                 \* alive, bound (listening on its port)
    pc,          \* per thread: position inside lookup() and the operation
    win,         \* per thread: window id of the view being served
    made,        \* per thread: Worker built inside the critical section
    err,         \* per thread: exception in flight
    attempts,    \* per thread: Popen calls made by the current lookup()
    ret,         \* per thread: Worker returned by lookup()
    resp,        \* per thread: what Client.request() handed back
    opres,       \* per thread: value returned by autocomplete / run_linter
    reply,       \* value on_query_completions returned to the editor
    uiBlocked,   \* blocking operations executed by the interactive thread
    lastOp,      \* per Worker: the lifecycle calls it went through last
    closed,      \* windows the editor has closed
    spawn,       \* one start_worker() command line: its inputs and sub_args
    naming       \* one generate_project_name() call: its window and result

vars == <<WORKERS, lock, workers, procs, pc, win, made, err, attempts, ret,
          resp, opres, reply, uiBlocked, lastOp, closed, spawn, naming>>

registryVars == <<WORKERS, lock>>
heapVars     == <<workers, procs>>
threadVars   == <<pc, win, made, err, attempts, ret, resp, opres, reply>>
pureVars     == <<spawn, naming>>

\* ---------------------------------------------------------------- helpers
\* Worker.__init__ before the call to restart(). The client field holds the
\* port its Client is bound to, the proccess field a process id.
NewWorker(view) ==
    [view |-> view, client |-> None, proccess |-> None, port |-> None,
     process |-> "unset"]

Live(p) == p # None /\ procs[p].alive

\* Ports some live backend is listening on.
BoundPorts == {procs[p].port : p \in {q \in DOMAIN procs :
                                        procs[q].alive /\ procs[q].bound}}

\* An allocator that hands out ports regardless of who is bound to them.
port_any == Ports

\* Worker.port(): bind to port 0, read the port back, close the socket.
\* The OS hands out any port nobody is bound to at that instant; None stands
\* for the bind failing because no port is left.
port == IF Ports \ BoundPorts = {} THEN {None} ELSE Ports \ BoundPorts

\* Worker.restart(), with Worker.start_worker() inlined. prt is what
\* Worker.port() returned, ok whether subprocess.Popen succeeded. Nothing is
\* closed or terminated: the old client and process are just dropped.
restart_stale_client(self, w, prt, ok) ==
    IF prt = None
    THEN [raised |-> "PortError", self |-> self, procs |-> procs]
    ELSE IF ~ok
    THEN [raised |-> "ProcessSpawnError",
          self |-> [self EXCEPT !.port = prt], procs |-> procs]
    ELSE [raised |-> "none",
          self |-> [self EXCEPT !.port = prt,
                                !.proccess = Len(procs) + 1,
                                !.client = IF self.port = None THEN prt
                                                               ELSE self.port],
          procs |-> Append(procs, [owner |-> w, port |-> prt,
                                   alive |-> TRUE, bound |-> FALSE])]

restart(self, w, prt, ok) ==
    IF prt = None
    THEN [raised |-> "PortError", self |-> self, procs |-> procs]
    ELSE LET started == [self EXCEPT !.port = prt]
         IN IF ~ok
            THEN [raised |-> "ProcessSpawnError", self |-> started,
                  procs |-> procs]
            ELSE [raised |-> "none",
                  self |-> [started EXCEPT !.proccess = Len(procs) + 1,
                                           !.client = started.port],
                  procs |-> Append(procs, [owner |-> w, port |-> prt,
                                           alive |-> TRUE, bound |-> FALSE])]

\* Worker.stop(). close_ok: whether Client.close() returned normally.
\* closes / terms: the clients close() and the processes terminate() were
\* called on. The process handle is kept: line 106 assigns self.process,
\* not self.proccess.
stop(self, close_ok) ==
    IF self.client # None /\ ~close_ok
    THEN [raised |-> "ChannelError", self |-> self,
          closes |-> {self.client}, terms |-> {}]
    ELSE [raised |-> "none",
          self |-> [self EXCEPT
                      !.client = None,
                      !.process = IF self.proccess # None THEN "None" ELSE @],
          closes |-> IF self.client # None THEN {self.client} ELSE {},
          terms |-> IF self.proccess # None THEN {self.proccess} ELSE {}]

\* Bodies of Worker.autocomplete and Worker.run_linter after request().
autocomplete_unchecked(result) ==
    IF result.present THEN PyList(result.completions) ELSE PyNone

autocomplete(result) ==
    IF result.present /\ result.success = TRUE
    THEN PyList(result.completions) ELSE PyNone

run_linter(result) ==
    IF result.present /\ result.success = TRUE
    THEN PyList(result.errors) ELSE PyNone

\* The tail of on_query_completions.
on_query_completions(proposals) ==
    IF ~proposals.isNone /\ proposals.items # <<>>
    THEN [proposals |-> proposals, flags |-> "INHIBIT_WORD|INHIBIT_EXPLICIT"]
    ELSE [proposals |-> proposals, flags |-> "none"]

NoReply == [proposals |-> PyNone, flags |-> "none"]

\* ---------------------------------------------------------------- strings
\* A Python str is a sequence of one-character strings.
Digits == <<"0", "1", "2", "3", "4", "5", "6", "7", "8", "9">>

\* str(n) for an int n >= 0.
RECURSIVE str(_)
str(n) == IF n < 10 THEN <<Digits[n + 1]>>
          ELSE str(n \div 10) \o <<Digits[(n % 10) + 1]>>

\* Index of the first / last occurrence of the character c in s, 0 if none.
find(s, c) ==
    IF \E i \in DOMAIN s : s[i] = c
    THEN CHOOSE i \in DOMAIN s : s[i] = c /\ \A j \in 1..(i - 1) : s[j] # c
    ELSE 0

rfind(s, c) ==
    IF \E i \in DOMAIN s : s[i] = c
    THEN CHOOSE i \in DOMAIN s : s[i] = c /\ \A j \in (i + 1)..Len(s) : s[j] # c
    ELSE 0

\* s.split(sep): the pieces between the separators, empty ones included.
RECURSIVE split(_, _)
split(s, sep) ==
    LET i == find(s, sep)
    IN IF i = 0 THEN <<s>>
       ELSE <<SubSeq(s, 1, i - 1)>> \o split(SubSeq(s, i + 1, Len(s)), sep)

\* s.rsplit(sep, 1): split once, at the last separator.
rsplit(s, sep) ==
    LET i == rfind(s, sep)
    IN IF i = 0 THEN <<s>>
       ELSE <<SubSeq(s, 1, i - 1), SubSeq(s, i + 1, Len(s))>>

\* 'anaconda-{id}'.format(id=n)
format(n) == <<"a", "n", "a", "c", "o", "n", "d", "a", "-">> \o str(n)

\* Characters pipes.quote leaves alone: [a-zA-Z0-9_@%+=:,./-] (lower case
\* only, the model's paths use no capitals).
SafeChars ==
    {"a", "b", "c", "d", "e", "f", "g", "h", "i", "j", "k", "l", "m", "n",
     "o", "p", "q", "r", "s", "t", "u", "v", "w", "x", "y", "z",
     "0", "1", "2", "3", "4", "5", "6", "7", "8", "9",
     "_", "@", "%", "+", "=", ":", ",", ".", "/", "-"}

\* s.replace("'", "'\"'\"'")
RECURSIVE replace(_)
replace(s) ==
    IF s = <<>> THEN <<>>
    ELSE (IF Head(s) = "'" THEN <<"'", "\"", "'", "\"", "'">>
                           ELSE <<Head(s)>>) \o replace(Tail(s))

\* pipes.quote(s): s itself when every character is safe, else s wrapped in
\* single quotes for a shell.
quote(s) ==
    IF s = <<>> THEN <<"'", "'">>
    ELSE IF \A i \in DOMAIN s : s[i] \in SafeChars THEN s
    ELSE <<"'">> \o replace(s) \o <<"'">>

\* os.path.join(a, b) on a POSIX path.
join(a, b) ==
    IF b # <<>> /\ Head(b) = "/" THEN b
    ELSE IF a = <<>> \/ a[Len(a)] = "/" THEN a \o b
    ELSE a \o <<"/">> \o b

\* ------------------------------------------------- generate_project_name
\* window.project_file_name() of a window without a project file.
NoFile == <<"None">>

\* Worker.generate_project_name(window). parts[2] is Python's parts[1], an
\* IndexError when the path held no '/'.
generate_project_name(window) ==
    IF window.project_file_name = NoFile
    THEN IF Len(window.folders) > 0
         THEN LET parts == rsplit(window.folders[1], "/")
              IN IF Len(parts) < 2
                 THEN [raised |-> "IndexError", name |-> <<>>]
                 ELSE [raised |-> "none", name |-> parts[2]]
         ELSE [raised |-> "none", name |-> format(window.window_id)]
    ELSE LET parts == rsplit(window.project_file_name, "/")
         IN IF Len(parts) < 2
            THEN [raised |-> "IndexError", name |-> <<>>]
            ELSE [raised |-> "none", name |-> split(parts[2], ".")[1]]

\* ----------------------------------------------------------- start_worker
\* 'anaconda_server/jsonserver.py'
ServerScript ==
    <<"a", "n", "a", "c", "o", "n", "d", "a", "_", "s", "e", "r", "v", "e",
      "r", "/", "j", "s", "o", "n", "s", "e", "r", "v", "e", "r", ".", "p",
      "y">>

\* dir is os.path.dirname(__file__), the plugin's install directory.
WORKER_SCRIPT(dir) == quote(join(dir, ServerScript))

\* for extra_path in extra_paths.split(','): if extra_path != '':
\*     sub_args.extend(['-e', extra_path])
RECURSIVE extend(_)
extend(pieces) ==
    IF pieces = <<>> THEN <<>>
    ELSE (IF Head(pieces) # <<>> THEN <<<<"-", "e">>, Head(pieces)>>
                                 ELSE <<>>) \o extend(Tail(pieces))

\* The command line start_worker() hands to subprocess.Popen.
sub_args(interp, dir, project_name, prt, extra_paths, pid) ==
    <<interp, <<"-", "B">>, WORKER_SCRIPT(dir), <<"-", "p">>, project_name,
      str(prt)>>
    \o extend(split(extra_paths, ","))
    \o <<str(pid)>>

\* ------------------------------------------------------------------- Init
\* No command line was built and no project name generated.
NoSpawn == [interp |-> <<>>, dir |-> <<>>, project_name |-> <<>>,
            port |-> None, entries |-> <<>>, extra_paths |-> <<>>,
            pid |-> None, done |-> FALSE, args |-> <<>>]

NoNaming == [project |-> <<>>, folders |-> <<>>, id |-> None,
             done |-> FALSE, result |-> [raised |-> "none", name |-> <<>>]]

\* The state after the module was loaded: empty registry, free lock.
InitWorkers ==
    /\ WORKERS = [v \in Windows |-> None]
    /\ lock = NoThread
    /\ workers = <<>>
    /\ procs = <<>>
    /\ pc = [t \in Threads |-> "idle"]
    /\ win = [t \in Threads |-> None]
    /\ made = [t \in Threads |-> None]
    /\ err = [t \in Threads |-> "none"]
    /\ attempts = [t \in Threads |-> 0]
    /\ ret = [t \in Threads |-> None]
    /\ resp = [t \in Threads |-> Absent]
    /\ opres = [t \in Threads |-> PyNone]
    /\ reply = NoReply
    /\ uiBlocked = {}
    /\ lastOp = <<>>
    /\ closed = {}

Init ==
    /\ InitWorkers
    /\ spawn = NoSpawn
    /\ naming = NoNaming

\* Outcomes of one start_worker() call the model explores: Popen is only
\* reached when a port was allocated, and succeeds at most MaxProcs times.
SpawnAllowed(prt, ok) ==
    /\ (prt = None) => ~ok
    /\ ok => Len(procs) < MaxProcs

\* ------------------------------------------------- lookup(), step by step
\* A thread enters an event handler for a view of window v: the interactive
\* thread runs on_query_completions, the other one lints in the background.
Call(t, v) ==
    /\ pc[t] = "idle"
    /\ pc' = [pc EXCEPT ![t] = "check"]
    /\ win' = [win EXCEPT ![t] = v]
    /\ UNCHANGED <<registryVars, heapVars, made, err, attempts, ret, resp,
                   opres, reply, uiBlocked, lastOp>>
    /\ UNCHANGED <<closed, pureVars>>

\* A membership test that sends every lookup() into the with block.
Check_always_locks(t) ==
    /\ pc[t] = "check"
    /\ pc' = [pc EXCEPT ![t] = "acquire"]
    /\ UNCHANGED <<registryVars, heapVars, win, made, err, attempts, ret,
                   resp, opres, reply, uiBlocked, lastOp>>
    /\ UNCHANGED <<closed, pureVars>>

\* if window.window_id not in WORKERS
Check(t) ==
    /\ pc[t] = "check"
    /\ pc' = [pc EXCEPT ![t] = IF WORKERS[win[t]] = None THEN "acquire"
                                                         ELSE "ret"]
    /\ UNCHANGED <<registryVars, heapVars, win, made, err, attempts, ret,
                   resp, opres, reply, uiBlocked, lastOp>>
    /\ UNCHANGED <<closed, pureVars>>

\* with WORKERS_LOCK: (entry; the lock is reentrant)
Acquire(t) ==
    /\ pc[t] = "acquire"
    /\ lock \in {NoThread, t}
    /\ lock' = t
    /\ pc' = [pc EXCEPT ![t] = "construct"]
    /\ UNCHANGED <<WORKERS, heapVars, win, made, err, attempts, ret, resp,
                   opres, reply, uiBlocked, lastOp>>
    /\ UNCHANGED <<closed, pureVars>>

\* Worker(view): __init__ -> restart() -> start_worker(), on the calling
\* thread. A Worker whose construction raised is never referenced again.
Construct(t) ==
    /\ pc[t] = "construct"
    /\ \E prt \in port, ok \in BOOLEAN :
        LET w == Len(workers) + 1
            r == restart(NewWorker(win[t]), w, prt, ok)
        IN /\ SpawnAllowed(prt, ok)
           /\ err' = [err EXCEPT ![t] = r.raised]
           /\ IF r.raised = "none"
              THEN /\ workers' = Append(workers, r.self)
                   /\ lastOp' = Append(lastOp, "start")
                   /\ made' = [made EXCEPT ![t] = w]
              ELSE UNCHANGED <<workers, lastOp, made>>
           /\ procs' = r.procs
           /\ attempts' = [attempts EXCEPT
                             ![t] = IF prt = None THEN @ ELSE @ + 1]
           /\ uiBlocked' = IF t = UI /\ prt # None
                           THEN uiBlocked \cup {"spawn"} ELSE uiBlocked
    /\ pc' = [pc EXCEPT ![t] = "exit"]
    /\ UNCHANGED <<registryVars, win, ret, resp, opres, reply>>
    /\ UNCHANGED <<closed, pureVars>>

\* Locks that stay held when the with block is left by an exception, or
\* when it is left normally.
lock_kept_on_error(t, e) == IF e = "none" THEN NoThread ELSE t

lock_kept_on_return(t, e) == IF e = "none" THEN t ELSE NoThread

\* The owner of WORKERS_LOCK after the with block is left, normally or by
\* the exception e.
lock_on_exit(t, e) == NoThread

\* WORKERS[window.window_id] = <the Worker>, then the lock's __exit__; when
\* the constructor raised nothing is assigned and __exit__ still runs.
Exit(t) ==
    /\ pc[t] = "exit"
    /\ lock' = lock_on_exit(t, err[t])
    /\ IF err[t] = "none"
       THEN /\ WORKERS' = [WORKERS EXCEPT ![win[t]] = made[t]]
            /\ pc' = [pc EXCEPT ![t] = "ret"]
            /\ UNCHANGED win
       ELSE /\ UNCHANGED WORKERS
            /\ pc' = [pc EXCEPT ![t] = "raised"]
            /\ win' = [win EXCEPT ![t] = None]
    /\ made' = [made EXCEPT ![t] = None]
    /\ attempts' = [attempts EXCEPT ![t] = 0]
    /\ UNCHANGED <<heapVars, err, ret, resp, opres, reply, uiBlocked,
                   lastOp>>
    /\ UNCHANGED <<closed, pureVars>>

\* return WORKERS[window.window_id]
Return(t) ==
    /\ pc[t] = "ret"
    /\ ret' = [ret EXCEPT ![t] = WORKERS[win[t]]]
    /\ win' = [win EXCEPT ![t] = None]
    /\ pc' = [pc EXCEPT ![t] = "op"]
    /\ UNCHANGED <<registryVars, heapVars, made, err, attempts, resp,
                   opres, reply, uiBlocked, lastOp>>
    /\ UNCHANGED <<closed, pureVars>>

\* ------------------------------------- autocomplete / run_linter (one call)
\* A backend answers only while some live process listens on the port the
\* client is bound to.
Listening(c) == c \in BoundPorts

\* @executor: the thread on which the wrapped body, and with it the blocking
\* Client.request(), runs: a pool thread, never a handler thread.
executor(t) == Pool

\* Worker.lookup(view).autocomplete(...) on the interactive thread,
\* Worker.lookup(view).run_linter(...) on the other. failed: request()
\* raised a channel-level error; nothing in the body catches it.
Operation(t) ==
    /\ pc[t] = "op"
    /\ LET self == workers[ret[t]]
       IN IF self.client = None
          THEN /\ err' = [err EXCEPT ![t] = "AttributeError"]
               /\ pc' = [pc EXCEPT ![t] = "raised"]
               /\ UNCHANGED <<resp, opres, reply, uiBlocked>>
          ELSE \E failed \in BOOLEAN,
                  result \in IF Listening(self.client) THEN Responses
                                                        ELSE {Absent} :
                /\ failed => result = Absent
                /\ uiBlocked' = IF executor(t) = UI
                                THEN uiBlocked \cup {"request"}
                                ELSE uiBlocked
                /\ IF failed
                   THEN /\ err' = [err EXCEPT ![t] = "ChannelError"]
                        /\ pc' = [pc EXCEPT ![t] = "raised"]
                        /\ UNCHANGED <<resp, opres, reply>>
                   ELSE /\ resp' = [resp EXCEPT ![t] = result]
                        /\ opres' = [opres EXCEPT
                                       ![t] = IF t = UI
                                              THEN autocomplete(result)
                                              ELSE run_linter(result)]
                        /\ reply' = IF t = UI
                                    THEN on_query_completions(opres'[t])
                                    ELSE reply
                        /\ pc' = [pc EXCEPT ![t] = "done"]
                        /\ UNCHANGED err
    /\ ret' = [ret EXCEPT ![t] = None]
    /\ UNCHANGED <<registryVars, heapVars, win, made, attempts, lastOp>>
    /\ UNCHANGED <<closed, pureVars>>

\* The handler returns (or its exception reaches the editor); the thread is
\* free for the next event.
Finish(t) ==
    /\ pc[t] \in {"done", "raised"}
    /\ pc' = [pc EXCEPT ![t] = "idle"]
    /\ err' = [err EXCEPT ![t] = "none"]
    /\ resp' = [resp EXCEPT ![t] = Absent]
    /\ opres' = [opres EXCEPT ![t] = PyNone]
    /\ reply' = IF t = UI THEN NoReply ELSE reply
    /\ UNCHANGED <<registryVars, heapVars, win, made, attempts, ret,
                   uiBlocked, lastOp>>
    /\ UNCHANGED <<closed, pureVars>>

\* ------------------------------------------------------ lifecycle calls
\* Workers some caller can hold a reference to: every constructed Worker
\* except one still inside its creator's critical section.
Published == {w \in DOMAIN workers : \A t \in Threads : made[t] # w}

\* Popen.terminate() on the processes in ps; a dead process holds no port.
Terminated(ps) == [p \in DOMAIN procs |->
                     IF p \in ps
                     THEN [procs[p] EXCEPT !.alive = FALSE, !.bound = FALSE,
                                           !.port = None]
                     ELSE procs[p]]

\* w.stop(), as one serialized call.
Stop(w) ==
    /\ w \in Published
    /\ \E close_ok \in BOOLEAN :
        LET r == stop(workers[w], close_ok)
        IN /\ (workers[w].client = None) => close_ok
           /\ workers' = [workers EXCEPT ![w] = r.self]
           /\ procs' = Terminated(r.terms)
           /\ lastOp' = IF r.raised = "none"
                        THEN [lastOp EXCEPT ![w] = "stop"] ELSE lastOp
    /\ UNCHANGED <<registryVars, threadVars, uiBlocked>>
    /\ UNCHANGED <<closed, pureVars>>

\* w.restart(), as one serialized call.
Restart(w) ==
    /\ w \in Published
    /\ \E prt \in port, ok \in BOOLEAN :
        LET r == restart(workers[w], w, prt, ok)
        IN /\ SpawnAllowed(prt, ok)
           /\ workers' = [workers EXCEPT ![w] = r.self]
           /\ procs' = r.procs
           /\ lastOp' = [lastOp EXCEPT
                           ![w] = IF @ = "stop" THEN "stop;restart"
                                                ELSE "start"]
    /\ UNCHANGED <<registryVars, threadVars, uiBlocked>>
    /\ UNCHANGED <<closed, pureVars>>

\* Worker.lookup(view) run to completion by one caller with no other
\* lookup() in flight: the lock is taken and released within the call.
LookupCall(v) ==
    /\ lock = NoThread
    /\ \A t \in Threads : pc[t] = "idle"
    /\ IF WORKERS[v] # None
       THEN UNCHANGED <<WORKERS, heapVars, lastOp>>
       ELSE \E prt \in port, ok \in BOOLEAN :
              LET w == Len(workers) + 1
                  r == restart(NewWorker(v), w, prt, ok)
              IN /\ SpawnAllowed(prt, ok)
                 /\ IF r.raised = "none"
                    THEN /\ workers' = Append(workers, r.self)
                         /\ lastOp' = Append(lastOp, "start")
                         /\ WORKERS' = [WORKERS EXCEPT ![v] = w]
                    ELSE UNCHANGED <<workers, lastOp, WORKERS>>
                 /\ procs' = r.procs
    /\ UNCHANGED <<lock, threadVars, uiBlocked>>
    /\ UNCHANGED <<closed, pureVars>>

\* ------------------------------------------------------------ environment
\* A spawned backend starts listening on the port it was given, if nobody
\* took that port in the meantime.
BackendBind(p) ==
    /\ p \in DOMAIN procs
    /\ procs[p].alive
    /\ ~procs[p].bound
    /\ procs[p].port \notin BoundPorts
    /\ procs' = [procs EXCEPT ![p].bound = TRUE]
    /\ UNCHANGED <<registryVars, workers, threadVars, uiBlocked, lastOp>>
    /\ UNCHANGED <<closed, pureVars>>

\* --------------------------------------------------------- specifications
\* One step of the handler running on thread t, once it was called.
Handler(t) ==
    \/ Check(t)
    \/ Acquire(t)
    \/ Construct(t)
    \/ Exit(t)
    \/ Return(t)
    \/ Operation(t)
    \/ Finish(t)

Lifecycle ==
    \/ \E w \in 1..MaxProcs : Stop(w)
    \/ \E w \in 1..MaxProcs : Restart(w)

Backend == \E p \in 1..MaxProcs : BackendBind(p)

Next ==
    \/ \E t \in Threads, v \in Windows : Call(t, v)
    \/ \E t \in Threads : Handler(t)
    \/ Lifecycle
    \/ Backend

Spec == Init /\ [][Next]_vars

\* The registry under concurrent handlers. No caller restarts or stops a
\* Worker and no backend comes up, so every request goes unanswered.
NextRegistry ==
    \/ \E t \in Threads, v \in Windows : Call(t, v)
    \/ \E t \in Threads : Handler(t)

SpecRegistry == Init /\ [][NextRegistry]_vars

\* The same under fair scheduling: a handler that can take a step eventually
\* takes one, and a thread waiting for WORKERS_LOCK gets it if the lock
\* keeps becoming free.
SpecRegistryFair ==
    /\ Init
    /\ [][NextRegistry]_vars
    /\ \A t \in Threads : WF_vars(Handler(t)) /\ SF_vars(Acquire(t))

\* The high-level operations against backends that come up and answer, one
\* handler at a time.
SerialCall(t, v) ==
    /\ \A u \in Threads : pc[u] = "idle"
    /\ Call(t, v)

NextOps ==
    \/ \E t \in Threads, v \in Windows : SerialCall(t, v)
    \/ \E t \in Threads : Handler(t)
    \/ Backend

SpecOps == Init /\ [][NextOps]_vars

\* The lifecycle of Workers: lookup() creates them, callers restart and stop
\* them, every call running to completion before the next.
NextLifecycle ==
    \/ \E v \in Windows : LookupCall(v)
    \/ Lifecycle
    \/ Backend

SpecLifecycle == Init /\ [][NextLifecycle]_vars

\* ------------------------------------------------------ closing a window
\* The editor closes window v. The plugin registers no handler for it (its
\* only listener method is on_query_completions), so nothing else changes.
CloseWindow(v) ==
    /\ v \notin closed
    /\ closed' = closed \cup {v}
    /\ UNCHANGED <<registryVars, heapVars, threadVars, uiBlocked, lastOp,
                   pureVars>>

\* The editor delivers events only for views of windows that are open.
OpenCall(t, v) ==
    /\ v \notin closed
    /\ Call(t, v)

NextClose ==
    \/ \E t \in Threads, v \in Windows : OpenCall(t, v)
    \/ \E t \in Threads : Handler(t)
    \/ \E v \in Windows : CloseWindow(v)

\* Handlers and windows being closed; a handler that was called keeps
\* running until it returns.
SpecClose ==
    /\ Init
    /\ [][NextClose]_vars
    /\ \A t \in Threads : WF_vars(Handler(t))

\* ------------------------------------- the command line of start_worker()
Interpreters == {<<"p", "y", "t", "h", "o", "n">>,
                 <<"/", "b", "i", "n", "/", "p", "y", "3">>}

\* Install directories: a plain one, and one with a space in it.
InstallDirs == {<<"/", "o", "p", "t", "/", "p", "k", "g">>,
                <<"/", "s", "t", " ", "3", "/", "p", "k", "g">>}

ProjectNames == {<<"p", "r", "o", "j">>, format(1)}

Pids == {7, 4242}

PathEntries == {<<>>, <<"/", "a">>, <<"b">>}

EntryLists == UNION {[1..n -> PathEntries] : n \in 0..MaxEntries}

\* ','.join(entries): the extra_paths setting that lists the entries.
RECURSIVE joined(_)
joined(entries) ==
    IF entries = <<>> THEN <<>>
    ELSE IF Len(entries) = 1 THEN entries[1]
    ELSE entries[1] \o <<",">> \o joined(Tail(entries))

InitArgs ==
    /\ InitWorkers
    /\ naming = NoNaming
    /\ \E i \in Interpreters, d \in InstallDirs, n \in ProjectNames,
          prt \in Ports, es \in EntryLists, pid \in Pids :
         spawn = [interp |-> i, dir |-> d, project_name |-> n, port |-> prt,
                  entries |-> es, extra_paths |-> joined(es), pid |-> pid,
                  done |-> FALSE, args |-> <<>>]

\* start_worker() builds sub_args from the settings and the allocated port.
BuildArgs ==
    /\ ~spawn.done
    /\ spawn' = [spawn EXCEPT
                   !.done = TRUE,
                   !.args = sub_args(spawn.interp, spawn.dir,
                                     spawn.project_name, spawn.port,
                                     spawn.extra_paths, spawn.pid)]
    /\ UNCHANGED <<registryVars, heapVars, threadVars, uiBlocked, lastOp,
                   closed, naming>>

NextArgs == BuildArgs

SpecArgs == InitArgs /\ [][NextArgs]_vars

\* ------------------------------------------------ naming a window's project
ProjectDirs == {<<"/", "h", "o", "m", "e", "/", "u">>, <<"/", "w">>}

Stems == {<<"p", "r", "o", "j">>, <<"m", "y", ".", "a", "p", "p">>}

\* '.sublime-project'
ProjectExt == <<".", "s", "u", "b", "l", "i", "m", "e", "-", "p", "r", "o",
                "j", "e", "c", "t">>

FolderParents == {<<"/", "h", "o", "m", "e", "/", "u">>, <<"/", "s", "r", "v">>}

FolderNames == {<<"m", "y", "r", "e", "p", "o">>, <<"l", "i", "b">>}

Projects == [dir : ProjectDirs, stem : Stems]

Folders == [parent : FolderParents, name : FolderNames]

FolderLists == UNION {[1..n -> Folders] : n \in 0..MaxFolders}

\* The window the editor API presents: absolute paths, '/' separated.
WindowOf(n) ==
    [project_file_name |->
         IF n.project = <<>> THEN NoFile
         ELSE n.project[1].dir \o <<"/">> \o n.project[1].stem \o ProjectExt,
     folders |-> [i \in DOMAIN n.folders |->
                    n.folders[i].parent \o <<"/">> \o n.folders[i].name],
     window_id |-> n.id]

InitNames ==
    /\ InitWorkers
    /\ spawn = NoSpawn
    /\ \E pr \in {<<>>} \cup {<<x>> : x \in Projects}, fs \in FolderLists,
          id \in Windows :
         naming = [project |-> pr, folders |-> fs, id |-> id, done |-> FALSE,
                   result |-> [raised |-> "none", name |-> <<>>]]

\* Worker.generate_project_name(window) is called for the window.
GenerateName ==
    /\ ~naming.done
    /\ naming' = [naming EXCEPT
                    !.done = TRUE,
                    !.result = generate_project_name(WindowOf(naming))]
    /\ UNCHANGED <<registryVars, heapVars, threadVars, uiBlocked, lastOp,
                   closed, spawn>>

NextNames == GenerateName

SpecNames == InitNames /\ [][NextNames]_vars

\* ================================================================= claims

\* C1. Concurrent lookup() calls for one window that start with no registry
\* entry construct exactly one Worker and spawn exactly one backend process
\* for that window. (Under SpecRegistry nothing is restarted, so every
\* process was spawned by a Worker's construction.)
WorkersOf(v) == {w \in DOMAIN workers : workers[w].view = v}

ProcsOf(v) == {p \in DOMAIN procs : procs[p].owner \in WorkersOf(v)}

C1_OneWorkerPerWindow ==
    \A v \in Windows : Cardinality(WorkersOf(v)) <= 1
                       /\ Cardinality(ProcsOf(v)) <= 1

\* C2. A Worker has at most one live backend process at any time, whatever
\* construction, restart() and stop() calls it went through.
LiveProcsOf(w) == {p \in DOMAIN procs : procs[p].owner = w /\ procs[p].alive}

C2_AtMostOneLiveProcess ==
    \A w \in DOMAIN workers : Cardinality(LiveProcsOf(w)) <= 1

\* C3. stop() on a Worker stopped before (no restart() since) is a no-op: it
\* closes no channel, terminates no process handle, raises nothing and
\* leaves the Worker and the processes as they were. (A repeated terminate()
\* changes no variable, so the call is examined in the states it starts in.)
C3_SecondStopIsNoOp ==
    \A w \in DOMAIN workers :
        lastOp[w] = "stop" =>
            \A close_ok \in BOOLEAN :
                LET r == stop(workers[w], close_ok)
                IN /\ r.closes = {}
                   /\ r.terms = {}
                   /\ r.raised = "none"
                   /\ r.self = workers[w]
                   /\ Terminated(r.terms) = procs

\* C4. restart() on a Worker with an open channel and a live process acts as
\* stop() followed by start(): the old channel is closed, the old process is
\* terminated, and the Worker keeps its identity (registry entry and view).
C4_RestartStopsFirst ==
    [][\A w \in DOMAIN workers :
         (/\ workers[w].client # None
          /\ Live(workers[w].proccess)
          /\ Restart(w)
          /\ workers'[w].proccess # workers[w].proccess) =>
            LET old == workers[w]
                torn == stop(old, TRUE)
            IN /\ ~procs'[old.proccess].alive
               /\ old.proccess \in torn.terms
               /\ old.client \in torn.closes
               /\ workers'[w].process = torn.self.process
               /\ workers'[w].view = old.view
               /\ WORKERS' = WORKERS]_vars

\* C5 as stated. stop() followed by restart() yields a Worker on a port that
\* differs from the one it had before the stop(), with its channel bound to
\* the new port and a live backend process.
C5_PortDiffersAfterRestart ==
    [][\A w \in DOMAIN workers :
         (/\ lastOp[w] = "stop"
          /\ Restart(w)
          /\ workers'[w].client # None) =>
            /\ workers'[w].port # workers[w].port
            /\ workers'[w].client = workers'[w].port
            /\ procs'[workers'[w].proccess].alive]_vars

\* C5 as amended. stop() followed by a restart() that returns normally
\* yields a Worker whose port is a port no backend was listening on at the
\* instant of the call (it may equal the old one), whose channel is bound to
\* that port, and which has a live backend process spawned with that port.
C5_FreshPortAfterRestart ==
    [][\A w \in DOMAIN workers :
         (/\ lastOp[w] = "stop"
          /\ Restart(w)
          /\ workers'[w].client # None) =>
            /\ workers'[w].port \in Ports \ BoundPorts
            /\ workers'[w].client = workers'[w].port
            /\ workers'[w].proccess \notin DOMAIN procs
            /\ procs'[workers'[w].proccess].alive
            /\ procs'[workers'[w].proccess].port = workers'[w].port]_vars

\* A Worker that was stopped and then restarted successfully.
C5_Witness ==
    \E w \in DOMAIN workers :
        /\ lastOp[w] = "stop;restart"
        /\ workers[w].client # None
        /\ Live(workers[w].proccess)

\* C6. autocomplete / run_linter return exactly the response's payload
\* (completions / errors) when the response is present with success = true,
\* and None, without raising, when it is absent or has success = false.
Payload(t, r) == IF t = UI THEN r.completions ELSE r.errors

C6_PayloadOrNone ==
    \A t \in Threads :
        pc[t] = "done" =>
            /\ err[t] = "none"
            /\ (resp[t].present /\ resp[t].success)
                  => opres[t] = PyList(Payload(t, resp[t]))
            /\ (~resp[t].present \/ ~resp[t].success)
                  => opres[t] = PyNone

\* Both operations returned: autocomplete a payload from a successful
\* response, run_linter None from a present response with success = false.
C6_Witness ==
    /\ pc[UI] = "done"
    /\ resp[UI].present /\ resp[UI].success
    /\ opres[UI] = PyList(<<"path", "getcwd">>)

C6_WitnessFailure ==
    \E t \in Threads :
        /\ pc[t] = "done"
        /\ resp[t].present /\ ~resp[t].success
        /\ opres[t] = PyNone

\* C7. A channel-level error raised by request() never leaves autocomplete
\* or run_linter: the operation returns an empty / absent result instead.
C7_ChannelErrorRecovered ==
    \A t \in Threads : ~(pc[t] = "raised" /\ err[t] = "ChannelError")

\* C8. A spawn failure inside lookup() reaches lookup()'s caller after one
\* Popen attempt, inserts nothing in the registry, spawns nothing, and
\* releases the registry lock, so that the next lookup() for the window
\* finds no entry and the lock free.
C8_SpawnFailureSurfaced ==
    [][\A t \in Threads :
         (pc[t] = "exit" /\ err[t] = "ProcessSpawnError" /\ pc'[t] # "exit")
            => /\ pc'[t] = "raised"
               /\ err'[t] = "ProcessSpawnError"
               /\ attempts[t] = 1
               /\ made[t] = None
               /\ WORKERS' = WORKERS
               /\ workers' = workers
               /\ procs' = procs
               /\ lock = t
               /\ lock' = NoThread]_vars

\* The failure reached the caller; no entry was made and the lock is free.
C8_Witness ==
    \E t \in Threads :
        /\ pc[t] = "raised"
        /\ err[t] = "ProcessSpawnError"
        /\ lock = NoThread
        /\ \A v \in Windows : WORKERS[v] = None

\* C9. The interactive thread never itself spawns a backend process or
\* performs a blocking channel request.
C9_InteractiveThreadNeverBlocks == uiBlocked = {}

\* C10. stop() terminates the backend process even when Client.close()
\* fails: the error is ignored, the call returns, and afterwards the Worker
\* holds no channel and its process is dead. (A stop() that raises changes
\* no variable, so the call is examined in the states it starts in.)
C10_StopTerminatesDespiteCloseError ==
    \A w \in Published :
        (workers[w].client # None /\ Live(workers[w].proccess)) =>
            LET r == stop(workers[w], FALSE)
            IN /\ r.raised = "none"
               /\ r.self.client = None
               /\ workers[w].proccess \in r.terms
               /\ ~Terminated(r.terms)[workers[w].proccess].alive

\* C11. After a window is closed, its Worker is eventually stopped and its
\* entry eventually removed from the registry: no registry entry and no
\* backend process outlives its window forever.
C11_ClosedWindowReleased ==
    \A v \in Windows :
        (v \in closed) ~>
            (/\ WORKERS[v] = None
             /\ \A w \in WorkersOf(v) : lastOp[w] = "stop"
             /\ \A p \in ProcsOf(v) : ~procs[p].alive)

\* C12. For every interpreter, project name, port, extra_paths setting and
\* parent pid, the command line is exactly: interpreter, '-B', the path of
\* the backend entry script, '-p', project name, port, one '-e' <path> pair
\* per non-empty entry of extra_paths in order, and the parent pid last.
RECURSIVE ExtraFlags(_)
ExtraFlags(entries) ==
    IF entries = <<>> THEN <<>>
    ELSE (IF entries[1] = <<>> THEN <<>>
          ELSE <<<<"-", "e">>, entries[1]>>) \o ExtraFlags(Tail(entries))

C12_ArgumentVector ==
    spawn.done =>
        spawn.args =
            <<spawn.interp, <<"-", "B">>, join(spawn.dir, ServerScript),
              <<"-", "p">>, spawn.project_name, str(spawn.port)>>
            \o ExtraFlags(spawn.entries)
            \o <<str(spawn.pid)>>

\* C13. generate_project_name returns the project file's base name without
\* directory and extension when the window has a project file; otherwise the
\* base name of the first folder when there is one; otherwise a name that
\* contains the window's id.
Contains(s, sub) ==
    \E i \in 1..(Len(s) + 1) :
        i + Len(sub) - 1 <= Len(s) /\ SubSeq(s, i, i + Len(sub) - 1) = sub

C13_ProjectName ==
    naming.done =>
        /\ naming.result.raised = "none"
        /\ IF naming.project # <<>>
           THEN naming.result.name = naming.project[1].stem
           ELSE IF naming.folders # <<>>
           THEN naming.result.name = naming.folders[1].name
           ELSE Contains(naming.result.name, str(naming.id))

\* C14. Once a Worker is in the registry for a window, the entry is never
\* replaced by another Worker, and a Worker that lookup() returned for the
\* window is the one the registry maps the window to.
C14_EntryNeverReplaced ==
    [][/\ \A v \in Windows :
            WORKERS[v] # None => WORKERS'[v] = WORKERS[v]
       /\ \A t \in Threads :
            pc'[t] = "op" => ret'[t] = WORKERS'[workers'[ret'[t]].view]]_vars

\* C15. lookup() for a window that has a registry entry takes the fast
\* path: from the membership test it goes straight to the return statement
\* and returns the mapped Worker; neither step takes the registry lock,
\* constructs a Worker or spawns a process, and both leave the registry and
\* every Worker's port, channel and process handle as they were.
C15_FastPath ==
    [][\A t \in Threads :
         /\ (pc[t] = "check" /\ WORKERS[win[t]] # None /\ pc'[t] # "check")
               => /\ pc'[t] = "ret"
                  /\ lock # t
                  /\ UNCHANGED <<WORKERS, lock, workers, procs>>
         /\ (pc[t] = "ret" /\ pc'[t] # "ret")
               => /\ pc'[t] = "op"
                  /\ ret'[t] = WORKERS[win[t]]
                  /\ lock # t
                  /\ UNCHANGED <<WORKERS, lock, workers, procs>>]_vars

\* Both threads are about to return the one Worker ever built for a window:
\* at least one of them found the entry in place.
C15_Witness ==
    \E v \in Windows :
        /\ \A t \in Threads : pc[t] = "ret" /\ win[t] = v
        /\ Cardinality(WorkersOf(v)) = 1
        /\ lock = NoThread

\* C16. A Worker that holds a channel has the channel bound to the port in
\* its port field, and the process in its process handle was spawned with
\* that port; after any sequence of restart() and stop() calls, a restart()
\* whose spawn fails included. (Calls are serialized: none is in progress in
\* any state.)
C16_ChannelBoundToPort ==
    \A w \in Published :
        workers[w].client # None =>
            /\ workers[w].client = workers[w].port
            /\ workers[w].proccess # None
            /\ procs[workers[w].proccess].port = workers[w].port

\* C17 as stated. No two Workers with live backend processes are assigned
\* the same port.
C17_NoSharedPort ==
    \A w1, w2 \in DOMAIN workers :
        (/\ w1 # w2
         /\ Live(workers[w1].proccess)
         /\ Live(workers[w2].proccess)) => workers[w1].port # workers[w2].port

\* C17 as amended. Every port assigned to a Worker, and every port a backend
\* process is spawned with, is a port no live backend was listening on at
\* the instant of the allocation, and no two live backends ever listen on
\* one port. (Two Workers whose backends are not both listening yet can
\* hold the same port.)
C17_PortFreeWhenAssigned ==
    [][/\ \A w \in DOMAIN workers' :
            (w \notin DOMAIN workers \/ workers'[w].port # workers[w].port)
               => workers'[w].port \in Ports \ BoundPorts
       /\ \A p \in DOMAIN procs' :
            p \notin DOMAIN procs => procs'[p].port \in Ports \ BoundPorts
       /\ \A p, q \in DOMAIN procs' :
            (/\ p # q
             /\ procs'[p].alive /\ procs'[p].bound
             /\ procs'[q].alive /\ procs'[q].bound)
               => procs'[p].port # procs'[q].port]_vars

\* Two Workers with live backends, the second spawned while the first was
\* listening: their ports differ.
C17_Witness ==
    \E w1, w2 \in DOMAIN workers :
        /\ w1 # w2
        /\ Live(workers[w1].proccess)
        /\ Live(workers[w2].proccess)
        /\ procs[workers[w1].proccess].bound
        /\ workers[w1].proccess < workers[w2].proccess
        /\ workers[w1].port = procs[workers[w1].proccess].port
        /\ workers[w2].port = procs[workers[w2].proccess].port
        /\ workers[w1].port # workers[w2].port

\* C18. Under fair scheduling every lookup() that was called returns a
\* Worker or raises, whatever the other thread does (same window or not);
\* and WORKERS_LOCK is held exactly by a thread inside the critical section,
\* so it is free whenever no lookup() is in there, after a construction that
\* returned as well as after one that raised.
InCriticalSection(t) == pc[t] \in {"construct", "exit"}

C18_LookupTerminates ==
    /\ [](\A t \in Threads : lock = t <=> InCriticalSection(t))
    /\ \A t \in Threads : (pc[t] = "check") ~> (pc[t] \in {"op", "raised"})

\* One lookup() waits for the lock while the other thread's lookup(), for
\* another window, is inside the critical section.
C18_Witness ==
    \E t, u \in Threads :
        /\ pc[t] = "acquire"
        /\ pc[u] = "exit"
        /\ lock = u
        /\ win[t] # win[u]

====
